---- MODULE Spec2Model ----
(***************************************************************************)
(* Boundary detection and J/L cut transform of the DRP timeline tool.      *)
(*                                                                         *)
(* A timeline document is modelled by the two clip lists that              *)
(* get_timeline_info extracts from it (first video track, first audio      *)
(* track).  A clip item is a function from the names of the child          *)
(* elements it has to their text; an element that is missing from the      *)
(* item is simply not in the function's domain.  Clip pairs refer to clip  *)
(* items by position in their track, which stands for the shared           *)
(* ET.Element reference held by the Python objects.                        *)
(***************************************************************************)
EXTENDS Integers, Sequences, FiniteSets, TLC

VARIABLES
    video_clips,   \* info['video_clips']: the video track's clip items
    audio_clips,   \* info['audio_clips']: the audio track's clip items
    clip_pairs,    \* the list last returned by find_clip_pairs
    boundaries,    \* the boundary list of the current pass
    members,       \* the files of the unpacked project archive
    saved,         \* the files save_timeline_xml wrote in the last run, in order
    ret            \* the last call: its name, arguments and returned value

vars == <<video_clips, audio_clips, clip_pairs, boundaries, members, saved, ret>>

(***************************************************************************)
(* Bounds of the model.                                                    *)
(***************************************************************************)
MaxVideo   == 2   \* clip items on the video track
MaxAudio   == 2   \* clip items on the audio track
MaxOffset  == 2   \* largest offset passed to a cut
MaxGap     == 1   \* largest max_gap passed to find_eligible_boundaries
FrameLimit == 4   \* no cut is attempted that would write a larger Duration
LongVideo  == 3   \* clip items on the video track of a long timeline
LongAudio  == 3   \* clip items on the audio track of a long timeline
BatchVideo == 4   \* clip items on the video track of a timeline cut in batches
BatchAudio == 3   \* clip items on the audio track of a timeline cut in batches
MaxMembers == 2   \* files in a project archive

Offsets == 0..MaxOffset

\* the largest offset a request may ask for
MaxRequestOffset == 100

\* cut_type as the callers pass it; anything that is not J or j selects the L-cut
DefaultMaxGap == 10

CutTypes == {"j", "L"}
Gaps    == 0..MaxGap

(***************************************************************************)
(* Text of numeric properties.  int(text) accepts an optional sign and     *)
(* surrounding blanks; str(n) writes the canonical decimal form.           *)
(***************************************************************************)
IntRange == (0 - FrameLimit - MaxOffset)..(FrameLimit + MaxOffset)

str(n) == ToString(n)

IntLiterals(n) ==
    {str(n), " " \o str(n) \o " "} \cup (IF n >= 0 THEN {"+" \o str(n)} ELSE {})

\* the integer each literal stands for
LiteralValue ==
    [text \in UNION {IntLiterals(n) : n \in IntRange} |->
        CHOOSE n \in IntRange : text \in IntLiterals(n)]

\* int(value): <<n>> when value is an integer literal, <<>> for ValueError
py_int(value) ==
    IF value \in DOMAIN LiteralValue THEN <<LiteralValue[value]>> ELSE <<>>

(***************************************************************************)
(* Property access (resolve_parse.py).                                     *)
(***************************************************************************)
\* <<>> is Python's None, <<text>> the element's text
get_clip_property(clip, property_name) ==
    IF property_name \in DOMAIN clip THEN <<clip[property_name]>> ELSE <<>>

\* get_clip_property(clip, property_name) or ""
get_clip_property_or_empty(clip, property_name) ==
    LET value == get_clip_property(clip, property_name)
    IN  IF value = <<>> THEN "" ELSE value[1]

set_clip_property(clip, property_name, value) ==
    IF property_name \in DOMAIN clip
    THEN [clip EXCEPT ![property_name] = value]
    ELSE clip

parse_int_property_default_zero(clip, property_name, default) ==
    LET value == get_clip_property(clip, property_name)
    IN  IF value = <<>> \/ value = <<"">>
        THEN 0
        ELSE LET parsed == py_int(value[1])
             IN  IF parsed = <<>> THEN 0 ELSE parsed[1]

parse_int_property(clip, property_name, default) ==
    LET value == get_clip_property(clip, property_name)
    IN  IF value = <<>> \/ value = <<"">>
        THEN default
        ELSE LET parsed == py_int(value[1])
             IN  IF parsed = <<>> THEN default ELSE parsed[1]

(***************************************************************************)
(* Clip-pair matcher (cuts_model.py).                                      *)
(***************************************************************************)
ClipKey_without_media_ref(clip) ==
    << get_clip_property_or_empty(clip, "Name"),
       "",
       parse_int_property(clip, "Start", 0) >>

ClipKey(clip) ==
    << get_clip_property_or_empty(clip, "Name"),
       get_clip_property_or_empty(clip, "MediaRef"),
       parse_int_property(clip, "Start", 0) >>

RECURSIVE audio_lookup_first_wins(_, _)
audio_lookup_first_wins(audio, n) ==
    IF n = 0
    THEN <<>>
    ELSE LET prev == audio_lookup_first_wins(audio, n - 1)
             key  == ClipKey(audio[n])
         IN  IF key \in DOMAIN prev
             THEN prev
             ELSE [k \in (DOMAIN prev) \cup {key} |-> IF k = key THEN n ELSE prev[k]]

\* audio_lookup[key] = audio_clip, for the first n audio clips
RECURSIVE audio_lookup(_, _)
audio_lookup(audio, n) ==
    IF n = 0
    THEN <<>>
    ELSE LET prev == audio_lookup(audio, n - 1)
             key  == ClipKey(audio[n])
         IN  [k \in (DOMAIN prev) \cup {key} |-> IF k = key THEN n ELSE prev[k]]

ClipPair(v, a, video_clip) ==
    [ video_clip |-> v,
      audio_clip |-> a,
      name       |-> get_clip_property_or_empty(video_clip, "Name"),
      start      |-> parse_int_property(video_clip, "Start", 0),
      duration   |-> parse_int_property(video_clip, "Duration", 0),
      in_point   |-> parse_int_property(video_clip, "In", 0),
      media_ref  |-> get_clip_property_or_empty(video_clip, "MediaRef") ]

\* the loop over video_clips: pairs appended for the first n video clips
RECURSIVE matched_pairs(_, _, _)
matched_pairs(video, lookup, n) ==
    IF n = 0
    THEN <<>>
    ELSE LET prev == matched_pairs(video, lookup, n - 1)
             key  == ClipKey(video[n])
         IN  IF key \in DOMAIN lookup
             THEN Append(prev, ClipPair(n, lookup[key], video[n]))
             ELSE prev

sort_insert_before_equal(sorted, p) ==
    LET before == SelectSeq(sorted, LAMBDA q : q.start < p.start)
        after  == SelectSeq(sorted, LAMBDA q : q.start >= p.start)
    IN  before \o <<p>> \o after

\* list.sort(key=lambda p: p.start) is stable: p goes after every element
\* whose start is not larger
sort_insert(sorted, p) ==
    LET before == SelectSeq(sorted, LAMBDA q : q.start <= p.start)
        after  == SelectSeq(sorted, LAMBDA q : q.start > p.start)
    IN  before \o <<p>> \o after

RECURSIVE sort_by_start(_, _)
sort_by_start(pairs, n) ==
    IF n = 0 THEN <<>> ELSE sort_insert(sort_by_start(pairs, n - 1), pairs[n])

find_clip_pairs(video, audio) ==
    LET lookup == audio_lookup(audio, Len(audio))
        pairs  == matched_pairs(video, lookup, Len(video))
    IN  sort_by_start(pairs, Len(pairs))

(***************************************************************************)
(* Timeline documents the model starts from.                               *)
(***************************************************************************)
Item(name, media_ref, start, duration, in_point) ==
    [Name |-> name, MediaRef |-> media_ref, Start |-> start,
     Duration |-> duration, In |-> in_point]

Without(clip, property_name) ==
    [p \in (DOMAIN clip) \ {property_name} |-> clip[p]]

VideoItems ==
    { Item("A", "M", "0", "1", "0"),
      Item("B", "M", "1", "2", "2"),
      Item("B", "M", "2", "1", "2"),
      Item("B", "N", "1", "2", "0"),
      Without(Item("", "M", "+1", "x", ""), "Name") }

AudioItems ==
    { Item("A", "M", "0", "1", "0"),
      Item("A", "M", "0", "2", "0"),
      Item("B", "M", "+1", " 2 ", "2"),
      Item("B", "M", "2", "1", "2"),
      Item("B", "N", "1", "2", "0"),
      Without(Item("", "M", " 1 ", "", "0"), "Duration") }

\* fewer kinds of item, for the longer timelines
LongVideoItems ==
    { Item("A", "M", "0", "1", "0"),
      Item("B", "M", "2", "1", "2"),
      Without(Item("", "M", "+2", "x", ""), "Name") }

LongAudioItems ==
    { Item("A", "M", "0", "1", "0"),
      Item("A", "M", "0", "2", "0"),
      Item("B", "M", "2", "1", "2"),
      Without(Item("", "M", " 2 ", "", "0"), "Duration") }

\* items of the timelines that are cut in batches: the third kind has no
\* Duration to speak of, so that it may share its Start with a neighbour
BatchVideoItems ==
    { Item("A", "M", "0", "2", "0"),
      Item("B", "M", "2", "2", "3"),
      Without(Item("", "M", "+2", "x", ""), "Name") }

BatchAudioItems ==
    { Item("A", "M", "0", "2", "0"),
      Item("B", "M", "2", "2", "3"),
      Without(Item("", "M", " 2 ", "", "0"), "Duration") }

SeqsUpTo(S, n) == UNION { [1..m -> S] : m \in 0..n }

NoCall == [op |-> "none"]

Init ==
    /\ video_clips \in SeqsUpTo(VideoItems, MaxVideo)
    /\ audio_clips \in SeqsUpTo(AudioItems, MaxAudio)
    /\ clip_pairs = <<>>
    /\ boundaries = <<>>
    /\ members = <<>>
    /\ saved = <<>>
    /\ ret = NoCall

InitLong ==
    /\ video_clips \in SeqsUpTo(LongVideoItems, LongVideo)
    /\ audio_clips \in SeqsUpTo(LongAudioItems, LongAudio)
    /\ clip_pairs = <<>>
    /\ boundaries = <<>>
    /\ members = <<>>
    /\ saved = <<>>
    /\ ret = NoCall

\* items long enough to pass a pre-check, and items that start before frame 0
EdgeItems ==
    { Item("A", "M", "0", "2", "0"),
      Item("B", "M", "2", "2", "3"),
      Item("C", "M", "-1", "1", "-1"),
      Item("D", "M", "0", "2", "2") }

InitEdge ==
    /\ video_clips \in SeqsUpTo(EdgeItems, MaxVideo)
    /\ audio_clips \in SeqsUpTo(EdgeItems, MaxAudio)
    /\ clip_pairs = <<>>
    /\ boundaries = <<>>
    /\ members = <<>>
    /\ saved = <<>>
    /\ ret = NoCall

\* items whose frame fields are well-formed, oddly written, malformed or missing
ParseItems ==
    { Item("A", "M", "0", "1", "0"),
      Item("A", "M", "+1", " 1 ", "x"),
      Without(Item("B", "M", "", "-1", "1"), "In") }

InitParse ==
    /\ video_clips \in SeqsUpTo(ParseItems, MaxVideo)
    /\ audio_clips \in SeqsUpTo(ParseItems, MaxAudio)
    /\ clip_pairs = <<>>
    /\ boundaries = <<>>
    /\ members = <<>>
    /\ saved = <<>>
    /\ ret = NoCall

\* items of the timelines that are processed a second time; the audio track
\* may hold several items with one (Name, MediaRef, Start)
RerunItems ==
    { Item("A", "M", "0", "2", "0"),
      Item("B", "M", "2", "2", "3") }

InitRerun ==
    /\ video_clips \in SeqsUpTo(RerunItems, MaxVideo)
    /\ audio_clips \in SeqsUpTo(RerunItems, LongAudio)
    /\ clip_pairs = <<>>
    /\ boundaries = <<>>
    /\ members = <<>>
    /\ saved = <<>>
    /\ ret = NoCall

InTimelineOrder(track) ==
    \A i, j \in DOMAIN track :
        i < j => parse_int_property(track[i], "Start", 0)
                   <= parse_int_property(track[j], "Start", 0)

NoItemTwice(track) ==
    \A i, j \in DOMAIN track : track[i] = track[j] => i = j

InitBatch ==
    /\ video_clips \in {t \in SeqsUpTo(BatchVideoItems, BatchVideo) : InTimelineOrder(t)}
    /\ audio_clips \in {t \in SeqsUpTo(BatchAudioItems, BatchAudio) :
                            InTimelineOrder(t) /\ NoItemTwice(t)}
    /\ clip_pairs = <<>>
    /\ boundaries = <<>>
    /\ members = <<>>
    /\ saved = <<>>
    /\ ret = NoCall

(***************************************************************************)
(* Boundary detector (cuts_model.py).  The clip items are read through     *)
(* the references held by the pair, so the values are the current ones:    *)
(* video_track and audio_track are the tracks those references point into. *)
(***************************************************************************)
is_aligned_ignoring_duration(video_track, audio_track, clip_pair) ==
    LET video == video_track[clip_pair.video_clip]
        audio == audio_track[clip_pair.audio_clip]
    IN  /\ parse_int_property(video, "Start", 0) = parse_int_property(audio, "Start", 0)
        /\ parse_int_property(video, "In", 0) = parse_int_property(audio, "In", 0)

is_aligned(video_track, audio_track, clip_pair) ==
    LET video == video_track[clip_pair.video_clip]
        audio == audio_track[clip_pair.audio_clip]
        v_start    == parse_int_property(video, "Start", 0)
        a_start    == parse_int_property(audio, "Start", 0)
        v_duration == parse_int_property(video, "Duration", 0)
        a_duration == parse_int_property(audio, "Duration", 0)
        v_in       == parse_int_property(video, "In", 0)
        a_in       == parse_int_property(audio, "In", 0)
    IN  v_start = a_start /\ v_duration = a_duration /\ v_in = a_in

Boundary(before, after, cut_frame) ==
    [clip_pair_before |-> before, clip_pair_after |-> after, cut_frame |-> cut_frame]

gap_accepted_with_overlap(gap, max_gap) == gap <= max_gap

gap_accepted(gap, max_gap) == 0 <= gap /\ gap <= max_gap

\* the loop body for index i (1-based): <<boundary>> when one is appended
boundary_at(video_track, audio_track, pairs, i, max_gap) ==
    LET current_pair == pairs[i]
        next_pair    == pairs[i + 1]
        cut_frame    == current_pair.start + current_pair.duration
        gap          == next_pair.start - cut_frame
    IN  IF ~ is_aligned(video_track, audio_track, current_pair) THEN <<>>
        ELSE IF ~ is_aligned(video_track, audio_track, next_pair) THEN <<>>
        ELSE IF gap_accepted(gap, max_gap)
             THEN <<Boundary(current_pair, next_pair, cut_frame)>>
             ELSE <<>>

RECURSIVE boundaries_upto_prepending(_, _, _, _, _)
boundaries_upto_prepending(video_track, audio_track, pairs, n, max_gap) ==
    IF n <= 0
    THEN <<>>
    ELSE boundary_at(video_track, audio_track, pairs, n, max_gap)
           \o boundaries_upto_prepending(video_track, audio_track, pairs, n - 1, max_gap)

\* boundaries appended by the first n iterations of the loop
RECURSIVE boundaries_upto(_, _, _, _, _)
boundaries_upto(video_track, audio_track, pairs, n, max_gap) ==
    IF n <= 0
    THEN <<>>
    ELSE boundaries_upto(video_track, audio_track, pairs, n - 1, max_gap)
           \o boundary_at(video_track, audio_track, pairs, n, max_gap)

find_eligible_boundaries(video_track, audio_track, pairs, max_gap) ==
    boundaries_upto(video_track, audio_track, pairs, Len(pairs) - 1, max_gap)

(***************************************************************************)
(* Cut transform engine (cuts_transform.py).  audio_track is the track the *)
(* boundary's audio references point into; a cut returns the pair          *)
(* (success, message) and leaves that track in the state `audio`.          *)
(***************************************************************************)
Message(text, args) == [text |-> text, args |-> args]

Outcome(success, message, audio) ==
    [success |-> success, message |-> message, audio |-> audio]

\* the validation of apply_j_cut: <<>> when the cut is accepted, else the
\* message of the first check that rejects it
j_cut_validation_without_in_check(new_start, new_in, current_duration, offset) ==
    IF new_start < 0
    THEN <<Message("J-cut would push Start below 0", <<new_start>>)>>
    ELSE IF current_duration < offset
    THEN <<Message("Clip too short for offset", <<offset, current_duration>>)>>
    ELSE <<>>

j_cut_validation_of_current_start(new_start, new_in, current_duration, offset) ==
    IF new_start + offset < 0
    THEN <<Message("J-cut would push Start below 0", <<new_start>>)>>
    ELSE IF new_in < 0
    THEN <<Message("J-cut would push In below 0", <<new_in>>)>>
    ELSE IF current_duration < offset
    THEN <<Message("Clip too short for offset", <<offset, current_duration>>)>>
    ELSE <<>>

j_cut_validation(new_start, new_in, current_duration, offset) ==
    IF new_start < 0
    THEN <<Message("J-cut would push Start below 0", <<new_start>>)>>
    ELSE IF new_in < 0
    THEN <<Message("J-cut would push In below 0", <<new_in>>)>>
    ELSE IF current_duration < offset
    THEN <<Message("Clip too short for offset", <<offset, current_duration>>)>>
    ELSE <<>>

\* the three writes of a live J-cut
j_cut_write_without_in(audio_clip, new_start, new_duration, new_in) ==
    set_clip_property(
        set_clip_property(audio_clip, "Start", str(new_start)),
        "Duration", str(new_duration))

j_cut_write(audio_clip, new_start, new_duration, new_in) ==
    set_clip_property(
        set_clip_property(
            set_clip_property(audio_clip, "Start", str(new_start)),
            "Duration", str(new_duration)),
        "In", str(new_in))

\* Start, Duration and In as apply_j_cut finds them
current_values_with_recorded_start(audio_clip, clip_pair) ==
    << clip_pair.start,
       parse_int_property(audio_clip, "Duration", 0),
       parse_int_property(audio_clip, "In", 0) >>

current_values(audio_clip, clip_pair) ==
    << parse_int_property(audio_clip, "Start", 0),
       parse_int_property(audio_clip, "Duration", 0),
       parse_int_property(audio_clip, "In", 0) >>

apply_j_cut(audio_track, boundary, offset, dry_run) ==
    IF offset <= 0
    THEN Outcome(FALSE, Message("Offset must be positive", <<>>), audio_track)
    ELSE
    LET a                == boundary.clip_pair_after.audio_clip
        audio_clip       == audio_track[a]
        current          == current_values(audio_clip, boundary.clip_pair_after)
        current_start    == current[1]
        current_duration == current[2]
        current_in       == current[3]
        new_start        == current_start - offset
        new_duration     == current_duration + offset
        new_in           == current_in - offset
        rejected         == j_cut_validation(new_start, new_in, current_duration, offset)
    IN  IF rejected # <<>>
        THEN Outcome(FALSE, rejected[1], audio_track)
        ELSE Outcome(TRUE,
                     Message("J-cut applied",
                             <<boundary.clip_pair_after.name,
                               current_start, new_start,
                               current_duration, new_duration,
                               current_in, new_in>>),
                     IF ~ dry_run
                     THEN [audio_track EXCEPT
                             ![a] = j_cut_write(audio_clip, new_start, new_duration, new_in)]
                     ELSE audio_track)

\* the validation of apply_l_cut
l_cut_validation_against_offset(current_duration, offset) ==
    IF current_duration < offset
    THEN <<Message("Clip too short", <<current_duration>>)>>
    ELSE <<>>

l_cut_validation(current_duration, offset) ==
    IF current_duration < 1
    THEN <<Message("Clip too short", <<current_duration>>)>>
    ELSE <<>>

\* what apply_l_cut leaves on the audio track
l_cut_apply_always(audio_track, a, new_duration, dry_run) ==
    [audio_track EXCEPT
       ![a] = set_clip_property(audio_track[a], "Duration", str(new_duration))]

l_cut_apply(audio_track, a, new_duration, dry_run) ==
    IF ~ dry_run
    THEN [audio_track EXCEPT
            ![a] = set_clip_property(audio_track[a], "Duration", str(new_duration))]
    ELSE audio_track

\* the audio item apply_l_cut works on
l_cut_target_after(boundary) == boundary.clip_pair_after.audio_clip

l_cut_target(boundary) == boundary.clip_pair_before.audio_clip

apply_l_cut(audio_track, boundary, offset, dry_run) ==
    IF offset <= 0
    THEN Outcome(FALSE, Message("Offset must be positive", <<>>), audio_track)
    ELSE
    LET a                == l_cut_target(boundary)
        audio_clip       == audio_track[a]
        current_duration == parse_int_property(audio_clip, "Duration", 0)
        current_in       == parse_int_property(audio_clip, "In", 0)
        new_duration     == current_duration + offset
        rejected         == l_cut_validation(current_duration, offset)
    IN  IF rejected # <<>>
        THEN Outcome(FALSE, rejected[1], audio_track)
        ELSE Outcome(TRUE,
                     Message("L-cut applied",
                             <<boundary.clip_pair_before.name,
                               current_duration, new_duration>>),
                     l_cut_apply(audio_track, a, new_duration, dry_run))

validate_j_cut(audio_track, boundary, offset) ==
    apply_j_cut(audio_track, boundary, offset, TRUE)

validate_l_cut(audio_track, boundary, offset) ==
    apply_l_cut(audio_track, boundary, offset, TRUE)

(***************************************************************************)
(* Pre-check of a boundary against an offset (cuts_model.py).  Both        *)
(* durations and the Start are the ones the pairs recorded when they were  *)
(* matched; the In is read from the audio item as it is now.               *)
(***************************************************************************)
Verdict(ok, message) == [ok |-> ok, message |-> message]

validate_boundary_for_offset(audio_track, boundary, offset) ==
    LET min_duration == offset * 2
        after_new_start == boundary.clip_pair_after.start - offset
        after_in == parse_int_property(audio_track[boundary.clip_pair_after.audio_clip],
                                       "In", 0)
        after_new_in == after_in - offset
    IN  IF boundary.clip_pair_before.duration < min_duration
        THEN Verdict(FALSE, Message("Clip before too short for offset",
                                    <<boundary.clip_pair_before.name, offset>>))
        ELSE IF boundary.clip_pair_after.duration < min_duration
        THEN Verdict(FALSE, Message("Clip after too short for offset",
                                    <<boundary.clip_pair_after.name, offset>>))
        ELSE IF after_new_start < 0
        THEN Verdict(FALSE, Message("Offset would push next clip start below 0", <<>>))
        ELSE IF after_new_in < 0
        THEN Verdict(FALSE, Message("Offset would push next clip in point below 0", <<>>))
        ELSE Verdict(TRUE, Message("", <<>>))

(***************************************************************************)
(* Batch application (cuts_transform.py).                                  *)
(***************************************************************************)
\* cut_type.upper()
upper(cut_type) ==
    IF cut_type = "j" THEN "J" ELSE IF cut_type = "l" THEN "L" ELSE cut_type

\* cut_function(boundary, offset, dry_run)
cut_function(cut_type, audio_track, boundary, offset, dry_run) ==
    IF upper(cut_type) = "J"
    THEN apply_j_cut(audio_track, boundary, offset, dry_run)
    ELSE apply_l_cut(audio_track, boundary, offset, dry_run)

NoResults(audio_track) ==
    [success_count |-> 0, fail_count |-> 0, messages |-> <<>>,
     successful_boundaries |-> <<>>, audio |-> audio_track]

BatchMessage(ok, boundary_num, message) ==
    [ok |-> ok, boundary_num |-> boundary_num, message |-> message]

RECURSIVE cuts_upto_first_failure(_, _, _, _, _, _)
cuts_upto_first_failure(audio_track, list, n, offset, cut_type, dry_run) ==
    IF n = 0
    THEN NoResults(audio_track)
    ELSE LET results == cuts_upto_first_failure(audio_track, list, n - 1, offset,
                                                cut_type, dry_run)
             outcome == cut_function(cut_type, results.audio, list[n], offset, dry_run)
         IN  IF results.fail_count > 0
             THEN results
             ELSE IF outcome.success
             THEN [results EXCEPT
                     !.success_count = @ + 1,
                     !.successful_boundaries = Append(@, list[n]),
                     !.messages = Append(@, BatchMessage(TRUE, n, outcome.message)),
                     !.audio = outcome.audio]
             ELSE [results EXCEPT
                     !.fail_count = @ + 1,
                     !.messages = Append(@, BatchMessage(FALSE, n, outcome.message))]

\* results after the first n iterations of the loop over the list
RECURSIVE cuts_upto(_, _, _, _, _, _)
cuts_upto(audio_track, list, n, offset, cut_type, dry_run) ==
    IF n = 0
    THEN NoResults(audio_track)
    ELSE LET results == cuts_upto(audio_track, list, n - 1, offset, cut_type, dry_run)
             outcome == cut_function(cut_type, results.audio, list[n], offset, dry_run)
         IN  IF outcome.success
             THEN [results EXCEPT
                     !.success_count = @ + 1,
                     !.successful_boundaries = Append(@, list[n]),
                     !.messages = Append(@, BatchMessage(TRUE, n, outcome.message)),
                     !.audio = outcome.audio]
             ELSE [results EXCEPT
                     !.fail_count = @ + 1,
                     !.messages = Append(@, BatchMessage(FALSE, n, outcome.message))]

apply_cuts_to_timeline(audio_track, list, offset, cut_type, dry_run) ==
    cuts_upto(audio_track, list, Len(list), offset, cut_type, dry_run)

(***************************************************************************)
(* Project archive (resolve_parse.py, api.py).  A file of the unpacked     *)
(* archive has a directory, a suffix and, when it parses as XML, a root    *)
(* element; an element is a record of the children that find() looks up.   *)
(***************************************************************************)
None == <<>>

\* ET.parse: <<root>>, or None for ET.ParseError
parse(file) == file.xml

find_sequence_files(tree) ==
    SelectSeq([i \in DOMAIN tree |-> i],
              LAMBDA i : /\ tree[i].dir = "SeqContainer"
                         /\ tree[i].suffix = ".xml"
                         /\ parse(tree[i]) # None
                         /\ parse(tree[i])[1].tag = "Sm2SequenceContainer")

first_track(root, track_vec) ==
    IF track_vec \notin DOMAIN root
    THEN None
    ELSE IF "Element" \notin DOMAIN root[track_vec]
    THEN None
    ELSE IF "Sm2TiTrack" \notin DOMAIN root[track_vec].Element
    THEN None
    ELSE <<root[track_vec].Element.Sm2TiTrack>>

get_video_track(root) == first_track(root, "VideoTrackVec")

get_audio_track(root) == first_track(root, "AudioTrackVec")

\* the clip an Element of Items holds, if any
clip_of(element) ==
    IF "Sm2TiVideoClip" \in DOMAIN element
    THEN <<element.Sm2TiVideoClip>>
    ELSE IF "Sm2TiAudioClip" \in DOMAIN element
    THEN <<element.Sm2TiAudioClip>>
    ELSE None

RECURSIVE clips_upto(_, _)
clips_upto(items, n) ==
    IF n = 0 THEN <<>> ELSE clips_upto(items, n - 1) \o clip_of(items[n])

get_track_items(track) ==
    IF "Items" \notin DOMAIN track
    THEN <<>>
    ELSE clips_upto(track.Items, Len(track.Items))

get_timeline_info(file) ==
    LET root == parse(file)[1].children
        video_track == get_video_track(root)
        audio_track == get_audio_track(root)
    IN  [video_clips |-> IF video_track # None THEN get_track_items(video_track[1]) ELSE <<>>,
         audio_clips |-> IF audio_track # None THEN get_track_items(audio_track[1]) ELSE <<>>]

\* the Elements of Items with their clips replaced, in order, by `clips`:
\* the cuts write into the elements of the tree that is saved
RECURSIVE with_clips(_, _, _)
with_clips(items, n, clips) ==
    IF n = 0
    THEN <<>>
    ELSE LET k == Len(clips_upto(items, n))
             element == items[n]
         IN  Append(with_clips(items, n - 1, clips),
                    IF "Sm2TiVideoClip" \in DOMAIN element
                    THEN [element EXCEPT !.Sm2TiVideoClip = clips[k]]
                    ELSE IF "Sm2TiAudioClip" \in DOMAIN element
                    THEN [element EXCEPT !.Sm2TiAudioClip = clips[k]]
                    ELSE element)

\* the file save_timeline_xml writes: the tree of the file with the audio
\* clips as the cuts left them
save_timeline_xml(file, audio_track) ==
    LET items == parse(file)[1].children.AudioTrackVec.Element.Sm2TiTrack.Items
    IN  [file EXCEPT
           !.xml[1].children.AudioTrackVec.Element.Sm2TiTrack.Items =
               with_clips(items, Len(items), audio_track)]

\* whether the timeline is written back after its batch
saved_when_boundaries(results) == TRUE

saved_when(results) == results.success_count > 0

\* the tree, the files written so far and the two totals
Run(tree, written, total_boundaries, total_applied) ==
    [tree |-> tree, saved |-> written, total_boundaries |-> total_boundaries,
     total_applied |-> total_applied]

NoRun(tree) == Run(tree, <<>>, 0, 0)

\* the body of `if boundaries:`
record_results(run, seq_file, count, results) ==
    IF saved_when(results)
    THEN Run([run.tree EXCEPT ![seq_file] = save_timeline_xml(@, results.audio)],
             Append(run.saved, seq_file),
             run.total_boundaries + count,
             run.total_applied + results.success_count)
    ELSE Run(run.tree, run.saved,
             run.total_boundaries + count,
             run.total_applied + results.success_count)

cut_boundaries_forgetting(run, seq_file, info, list, offset, cut_type) ==
    IF list = <<>>
    THEN NoRun(run.tree)
    ELSE record_results(run, seq_file, Len(list),
                        apply_cuts_to_timeline(info.audio_clips, list, offset,
                                               cut_type, FALSE))

cut_boundaries(run, seq_file, info, list, offset, cut_type) ==
    IF list = <<>>
    THEN run
    ELSE record_results(run, seq_file, Len(list),
                        apply_cuts_to_timeline(info.audio_clips, list, offset,
                                               cut_type, FALSE))

\* one iteration of the loop over the timelines, from the loaded document on
cut_timeline(run, seq_file, info, offset, cut_type) ==
    cut_boundaries(run, seq_file, info,
                   find_eligible_boundaries(
                       info.video_clips, info.audio_clips,
                       find_clip_pairs(info.video_clips, info.audio_clips),
                       DefaultMaxGap),
                   offset, cut_type)

\* the run after the first n iterations of the loop over the timelines
RECURSIVE run_upto(_, _, _, _, _)
run_upto(tree, seq_files, n, offset, cut_type) ==
    IF n = 0
    THEN NoRun(tree)
    ELSE cut_timeline(run_upto(tree, seq_files, n - 1, offset, cut_type),
                      seq_files[n], get_timeline_info(tree[seq_files[n]]),
                      offset, cut_type)

Response(status_code, detail, run) ==
    [status_code |-> status_code, detail |-> detail, tree |-> run.tree,
     saved |-> run.saved, total_boundaries |-> run.total_boundaries,
     total_applied |-> run.total_applied]

\* the checks after the loop; 200 stands for the repacked archive
respond(run) ==
    IF run.total_boundaries = 0
    THEN Response(400, "No eligible boundaries found in project", run)
    ELSE IF run.total_applied = 0
    THEN Response(400, "Could not apply cuts", run)
    ELSE Response(200, "", run)

process_timelines(tree, seq_files, offset, cut_type) ==
    IF seq_files = <<>>
    THEN Response(400, "No timelines found in project file", NoRun(tree))
    ELSE respond(run_upto(tree, seq_files, Len(seq_files), offset, cut_type))

\* the request handler, from the validation of cut_type and offset on
process_drp(tree, cut_type, offset) ==
    IF upper(cut_type) \notin {"J", "L"}
    THEN Response(400, "cut_type must be 'J' or 'L'", NoRun(tree))
    ELSE IF offset <= 0
    THEN Response(400, "offset must be a positive integer", NoRun(tree))
    ELSE IF offset > MaxRequestOffset
    THEN Response(400, "offset too large", NoRun(tree))
    ELSE process_timelines(tree, find_sequence_files(tree), offset, upper(cut_type))

(***************************************************************************)
(* Project archives the model starts from.                                 *)
(***************************************************************************)
File(dir, suffix, xml) == [dir |-> dir, suffix |-> suffix, xml |-> xml]

Xml(tag, children) == <<[tag |-> tag, children |-> children]>>

TrackVec(track) == [Element |-> [Sm2TiTrack |-> track]]

Track(elements) == [Items |-> elements]

VideoElement(clip) == [Sm2TiVideoClip |-> clip]

AudioElement(clip) == [Sm2TiAudioClip |-> clip]

\* an Element of Items that holds no clip
OtherElement == [Sm2TiGap |-> ""]

VideoAB ==
    TrackVec(Track(<< VideoElement(Item("A", "M", "0", "2", "0")),
                      OtherElement,
                      VideoElement(Item("B", "M", "2", "2", "3")) >>))

AudioAB ==
    TrackVec(Track(<< AudioElement(Item("A", "M", "0", "2", "0")),
                      AudioElement(Item("B", "M", "2", "2", "3")) >>))

VideoAZ ==
    TrackVec(Track(<< VideoElement(Item("A", "M", "0", "2", "0")),
                      VideoElement(Without(Item("", "M", "+2", "x", ""), "Name")) >>))

AudioAZ ==
    TrackVec(Track(<< AudioElement(Item("A", "M", "0", "2", "0")),
                      OtherElement,
                      AudioElement(Without(Item("", "M", " 2 ", "", "0"), "Duration")) >>))

Timeline(children) == File("SeqContainer", ".xml", Xml("Sm2SequenceContainer", children))

\* timelines whose cuts succeed, timelines on which every J-cut fails,
\* timelines with a track or its Items missing, and files that are no timeline
ProjectFiles ==
    { Timeline([VideoTrackVec |-> VideoAB, AudioTrackVec |-> AudioAB]),
      Timeline([VideoTrackVec |-> VideoAZ, AudioTrackVec |-> AudioAZ]),
      Timeline([AudioTrackVec |-> AudioAB]),
      Timeline([VideoTrackVec |-> [Size |-> "0"], AudioTrackVec |-> AudioAB]),
      Timeline([VideoTrackVec |-> VideoAB,
                AudioTrackVec |-> [Element |-> [Index |-> "0"]]]),
      Timeline([VideoTrackVec |-> VideoAB,
                AudioTrackVec |-> TrackVec([Index |-> "0"])]),
      File("SeqContainer", ".xml", Xml("Sm2Sequence", [Name |-> "1"])),
      File("SeqContainer", ".xml", None),
      File("MediaPool", ".xml",
           Xml("Sm2SequenceContainer",
               [VideoTrackVec |-> VideoAB, AudioTrackVec |-> AudioAB])) }

InitRun ==
    /\ video_clips = <<>>
    /\ audio_clips = <<>>
    /\ clip_pairs = <<>>
    /\ boundaries = <<>>
    /\ members \in SeqsUpTo(ProjectFiles, MaxMembers)
    /\ saved = <<>>
    /\ ret = NoCall

(***************************************************************************)
(* Operations.                                                             *)
(***************************************************************************)
CutCall(op, boundary, offset, dry_run, outcome) ==
    [op |-> op, boundary |-> boundary, offset |-> offset, dry_run |-> dry_run,
     success |-> outcome.success, message |-> outcome.message]

\* the Duration a live cut would write stays within the model's frame range
WithinFrameLimit(audio_clip, offset) ==
    parse_int_property(audio_clip, "Duration", 0) + offset <= FrameLimit

\* a processing pass starts by matching the clips; the boundaries of the
\* previous pass are gone
FindClipPairs ==
    /\ clip_pairs' = find_clip_pairs(video_clips, audio_clips)
    /\ boundaries' = <<>>
    /\ ret' = [op |-> "find_clip_pairs"]
    /\ UNCHANGED <<video_clips, audio_clips, members, saved>>

FindEligibleBoundaries(max_gap) ==
    /\ boundaries' = find_eligible_boundaries(video_clips, audio_clips, clip_pairs, max_gap)
    /\ ret' = [op |-> "find_eligible_boundaries", max_gap |-> max_gap]
    /\ UNCHANGED <<video_clips, audio_clips, clip_pairs, members, saved>>

IsAligned(i) ==
    /\ ret' = [op |-> "is_aligned", clip_pair |-> clip_pairs[i],
               value |-> is_aligned(video_clips, audio_clips, clip_pairs[i])]
    /\ UNCHANGED <<video_clips, audio_clips, clip_pairs, boundaries, members, saved>>

ApplyJCut(k, offset, dry_run) ==
    /\ dry_run \/ WithinFrameLimit(audio_clips[boundaries[k].clip_pair_after.audio_clip],
                                   offset)
    /\ LET outcome == apply_j_cut(audio_clips, boundaries[k], offset, dry_run)
       IN  /\ audio_clips' = outcome.audio
           /\ ret' = CutCall("apply_j_cut", boundaries[k], offset, dry_run, outcome)
    /\ UNCHANGED <<video_clips, clip_pairs, boundaries, members, saved>>

ApplyLCut(k, offset, dry_run) ==
    /\ dry_run \/ WithinFrameLimit(audio_clips[boundaries[k].clip_pair_before.audio_clip],
                                   offset)
    /\ LET outcome == apply_l_cut(audio_clips, boundaries[k], offset, dry_run)
       IN  /\ audio_clips' = outcome.audio
           /\ ret' = CutCall("apply_l_cut", boundaries[k], offset, dry_run, outcome)
    /\ UNCHANGED <<video_clips, clip_pairs, boundaries, members, saved>>

\* validate_j_cut and validate_l_cut return what the dry-run call returns
ValidateJCut(k, offset) ==
    /\ LET outcome == validate_j_cut(audio_clips, boundaries[k], offset)
       IN  /\ audio_clips' = outcome.audio
           /\ ret' = CutCall("apply_j_cut", boundaries[k], offset, TRUE, outcome)
    /\ UNCHANGED <<video_clips, clip_pairs, boundaries, members, saved>>

ValidateLCut(k, offset) ==
    /\ LET outcome == validate_l_cut(audio_clips, boundaries[k], offset)
       IN  /\ audio_clips' = outcome.audio
           /\ ret' = CutCall("apply_l_cut", boundaries[k], offset, TRUE, outcome)
    /\ UNCHANGED <<video_clips, clip_pairs, boundaries, members, saved>>

\* the defaults a caller supplies: the implicit 0 and one of its own
Defaults == {0, -1}

PropertyNames == {"Name", "Start", "Duration", "In"}

ParseIntProperty(clip, property_name, default) ==
    /\ ret' = [op |-> "parse_int_property", clip |-> clip,
               property_name |-> property_name, default |-> default,
               value |-> parse_int_property(clip, property_name, default)]
    /\ UNCHANGED <<video_clips, audio_clips, clip_pairs, boundaries, members, saved>>

ValidateBoundaryForOffset(k, offset) ==
    /\ ret' = [op |-> "validate_boundary_for_offset", boundary |-> boundaries[k],
               offset |-> offset,
               value |-> validate_boundary_for_offset(audio_clips, boundaries[k], offset)]
    /\ UNCHANGED <<video_clips, audio_clips, clip_pairs, boundaries, members, saved>>

\* the orders in which a caller hands the boundaries of the pass over:
\* as detected, or last to first
Reverse(list) == [i \in DOMAIN list |-> list[Len(list) + 1 - i]]

Orderings(list) == {list, Reverse(list)}

\* the audio item a cut of this kind is aimed at
Target(cut_type, boundary) ==
    IF upper(cut_type) = "J"
    THEN boundary.clip_pair_after.audio_clip
    ELSE boundary.clip_pair_before.audio_clip

\* every text that differs from the one in `before` is in the model's frame range
WrittenInRange(before, after) ==
    \A a \in DOMAIN after :
        \A p \in DOMAIN after[a] :
            after[a][p] # before[a][p] => after[a][p] \in DOMAIN LiteralValue

ApplyCutsToTimeline(list, offset, cut_type, dry_run) ==
    /\ dry_run \/ \A k \in DOMAIN list :
                     WithinFrameLimit(audio_clips[Target(cut_type, list[k])], offset)
    /\ LET results == apply_cuts_to_timeline(audio_clips, list, offset, cut_type, dry_run)
       IN  /\ WrittenInRange(audio_clips, results.audio)
           /\ audio_clips' = results.audio
           /\ ret' = [op |-> "apply_cuts_to_timeline", boundaries |-> list,
                      offset |-> offset, cut_type |-> cut_type, dry_run |-> dry_run,
                      success_count |-> results.success_count,
                      fail_count |-> results.fail_count,
                      messages |-> results.messages,
                      successful_boundaries |-> results.successful_boundaries]
    /\ UNCHANGED <<video_clips, clip_pairs, boundaries, members, saved>>

Next ==
    \/ FindClipPairs
    \/ \E max_gap \in Gaps : FindEligibleBoundaries(max_gap)
    \/ \E i \in DOMAIN clip_pairs : IsAligned(i)
    \/ \E k \in DOMAIN boundaries, offset \in Offsets, dry_run \in BOOLEAN :
          ApplyJCut(k, offset, dry_run)
    \/ \E k \in DOMAIN boundaries, offset \in Offsets, dry_run \in BOOLEAN :
          ApplyLCut(k, offset, dry_run)
    \/ \E k \in DOMAIN boundaries, offset \in Offsets : ValidateJCut(k, offset)
    \/ \E k \in DOMAIN boundaries, offset \in Offsets : ValidateLCut(k, offset)
    \/ \E k \in DOMAIN boundaries, offset \in Offsets :
          ValidateBoundaryForOffset(k, offset)

Spec == Init /\ [][Next]_vars

\* the same operations on timelines whose items are long enough for a
\* pre-check to pass, or start before frame 0
SpecEdge == InitEdge /\ [][Next]_vars

\* matching and boundary detection alone, on the longer timelines
NextLong ==
    \/ FindClipPairs
    \/ \E max_gap \in Gaps : FindEligibleBoundaries(max_gap)
    \/ \E i \in DOMAIN clip_pairs : IsAligned(i)

SpecLong == InitLong /\ [][NextLong]_vars

\* reading the frame fields of the items, matching and detection
NextParse ==
    \/ FindClipPairs
    \/ \E max_gap \in Gaps : FindEligibleBoundaries(max_gap)
    \/ \E i \in DOMAIN clip_pairs : IsAligned(i)
    \/ \E v \in DOMAIN video_clips, property_name \in PropertyNames, default \in Defaults :
          ParseIntProperty(video_clips[v], property_name, default)
    \/ \E a \in DOMAIN audio_clips, property_name \in PropertyNames, default \in Defaults :
          ParseIntProperty(audio_clips[a], property_name, default)

SpecParse == InitParse /\ [][NextParse]_vars

\* what a request may carry as cut_type and offset
RequestCutTypes == CutTypes \cup {"X"}

RequestOffsets == Offsets \cup {MaxRequestOffset + 1}

ProcessDrp(cut_type, offset) ==
    /\ LET response == process_drp(members, cut_type, offset)
       IN  /\ members' = response.tree
           /\ saved' = response.saved
           /\ ret' = [op |-> "process_drp", cut_type |-> cut_type, offset |-> offset,
                      status_code |-> response.status_code,
                      detail |-> response.detail,
                      total_boundaries |-> response.total_boundaries,
                      total_applied |-> response.total_applied]
    /\ UNCHANGED <<video_clips, audio_clips, clip_pairs, boundaries>>

\* one request after another on the same project
NextRun ==
    \E cut_type \in RequestCutTypes, offset \in RequestOffsets :
        ProcessDrp(cut_type, offset)

SpecRun == InitRun /\ [][NextRun]_vars

\* one pass after another over a timeline: matching, detection, a batch of cuts
NextBatch ==
    \/ FindClipPairs
    \/ FindEligibleBoundaries(DefaultMaxGap)
    \/ \E list \in Orderings(boundaries), offset \in Offsets,
          cut_type \in CutTypes, dry_run \in BOOLEAN :
          ApplyCutsToTimeline(list, offset, cut_type, dry_run)

SpecBatch == InitBatch /\ [][NextBatch]_vars

\* the same passes, repeated on timelines whose audio keys are not unique
SpecRerun == InitRerun /\ [][NextBatch]_vars

(***************************************************************************)
(* What a clip item's fields read as: an absent, empty or non-integer      *)
(* numeric field reads as 0.                                               *)
(***************************************************************************)
Reads(clip, property_name) == parse_int_property(clip, property_name, 0)

Triple(clip) == <<Reads(clip, "Start"), Reads(clip, "Duration"), Reads(clip, "In")>>

NonNegative(clip) ==
    Reads(clip, "Start") >= 0 /\ Reads(clip, "Duration") >= 0 /\ Reads(clip, "In") >= 0

IsCut(op) == ret.op = op

LiveSuccess(op) == ret.op = op /\ ~ ret.dry_run /\ ret.success

\* C1: a live J-cut with a positive offset o on an audio item reading
\* Start=s, Duration=d, In=i succeeds iff s-o >= 0, i-o >= 0 and d >= o, and
\* after a success the item reads Start=s-o, Duration=d+o, In=i-o.
C1_JCutContract ==
    [][ \A k \in DOMAIN boundaries, o \in 1..MaxOffset :
          ApplyJCut(k, o, FALSE) =>
            LET a == boundaries[k].clip_pair_after.audio_clip
                s == Reads(audio_clips[a], "Start")
                d == Reads(audio_clips[a], "Duration")
                i == Reads(audio_clips[a], "In")
            IN  /\ ret'.success <=> (s - o >= 0 /\ i - o >= 0 /\ d >= o)
                /\ ret'.success => Triple(audio_clips'[a]) = <<s - o, d + o, i - o>>
      ]_vars

\* a live J-cut has succeeded and its target reads the values it reported
C1_Witness ==
    /\ LiveSuccess("apply_j_cut")
    /\ LET a == ret.boundary.clip_pair_after.audio_clip
           m == ret.message.args
       IN  /\ Triple(audio_clips[a]) = <<m[3], m[5], m[7]>>
           /\ m[3] = m[2] - ret.offset

\* C2: a live L-cut with a positive offset o on an audio item whose Duration
\* reads d succeeds iff d >= 1, and after a success the item's Duration
\* reads d+o while its Start and In are unchanged.
C2_LCutContract ==
    [][ \A k \in DOMAIN boundaries, o \in 1..MaxOffset :
          ApplyLCut(k, o, FALSE) =>
            LET a == boundaries[k].clip_pair_before.audio_clip
                d == Reads(audio_clips[a], "Duration")
            IN  /\ ret'.success <=> d >= 1
                /\ ret'.success =>
                      /\ Reads(audio_clips'[a], "Duration") = d + o
                      /\ get_clip_property(audio_clips'[a], "Start")
                            = get_clip_property(audio_clips[a], "Start")
                      /\ get_clip_property(audio_clips'[a], "In")
                            = get_clip_property(audio_clips[a], "In")
      ]_vars

\* a live L-cut has succeeded with an offset larger than the Duration it found
C2_Witness ==
    /\ LiveSuccess("apply_l_cut")
    /\ LET a == ret.boundary.clip_pair_before.audio_clip
           m == ret.message.args
       IN  /\ Reads(audio_clips[a], "Duration") = m[3]
           /\ m[2] < ret.offset

\* C3: a dry-run J-cut or L-cut changes no field of any clip item, and a live
\* call made right after a dry-run call on the same boundary and offset
\* returns the same verdict.
C3_DryRun ==
    [][ /\ (ret'.op \in {"apply_j_cut", "apply_l_cut"} /\ ret'.dry_run)
              => (audio_clips' = audio_clips /\ video_clips' = video_clips)
        /\ ( /\ ret.op \in {"apply_j_cut", "apply_l_cut"}
             /\ ret.dry_run
             /\ ret'.op = ret.op
             /\ ~ ret'.dry_run
             /\ ret'.boundary = ret.boundary
             /\ ret'.offset = ret.offset )
              => ret'.success = ret.success
      ]_vars

\* a dry-run J-cut has been accepted and its target still reads the values
\* the call found
C3_Witness ==
    /\ IsCut("apply_j_cut") /\ ret.dry_run /\ ret.success
    /\ LET a == ret.boundary.clip_pair_after.audio_clip
           m == ret.message.args
       IN  Triple(audio_clips[a]) = <<m[2], m[4], m[6]>>

\* C4: starting from clip items that all read non-negative Start, Duration
\* and In, every clip item reads non-negative values after any sequence of
\* live cuts.
C4_NonNegative ==
    /\ \A v \in DOMAIN video_clips : NonNegative(video_clips[v])
    /\ \A a \in DOMAIN audio_clips : NonNegative(audio_clips[a])

\* a live J-cut has brought its target's Start and In down to exactly 0
C4_Witness ==
    /\ LiveSuccess("apply_j_cut")
    /\ LET a == ret.boundary.clip_pair_after.audio_clip
       IN  Reads(audio_clips[a], "Start") = 0 /\ Reads(audio_clips[a], "In") = 0

(***************************************************************************)
(* The match key of a clip item and the alignment of a pair, as read from  *)
(* the clip items now.                                                     *)
(***************************************************************************)
TextOf(clip, property_name) ==
    IF property_name \in DOMAIN clip THEN clip[property_name] ELSE ""

Key(clip) == <<TextOf(clip, "Name"), TextOf(clip, "MediaRef"), Reads(clip, "Start")>>

AlignedNow(pair) ==
    Triple(video_clips[pair.video_clip]) = Triple(audio_clips[pair.audio_clip])

GapAfter(i) ==
    clip_pairs[i + 1].start - (clip_pairs[i].start + clip_pairs[i].duration)

EmittedFor(i) ==
    \E k \in DOMAIN boundaries :
        /\ boundaries[k].clip_pair_before = clip_pairs[i]
        /\ boundaries[k].clip_pair_after = clip_pairs[i + 1]

PairIndex(pair) == CHOOSE i \in DOMAIN clip_pairs : clip_pairs[i] = pair

\* C5: find_eligible_boundaries emits a boundary for the consecutive pairs
\* (P[i], P[i+1]) iff both are aligned and 0 <= gap <= max_gap; no emitted
\* boundary has a negative gap, a gap above max_gap or an unaligned side.
C5_BoundaryIff ==
    ret.op = "find_eligible_boundaries" =>
        /\ \A i \in 1..(Len(clip_pairs) - 1) :
              EmittedFor(i) <=>
                  /\ AlignedNow(clip_pairs[i])
                  /\ AlignedNow(clip_pairs[i + 1])
                  /\ 0 <= GapAfter(i)
                  /\ GapAfter(i) <= ret.max_gap
        /\ \A k \in DOMAIN boundaries :
              LET before == boundaries[k].clip_pair_before
                  after  == boundaries[k].clip_pair_after
                  gap    == after.start - (before.start + before.duration)
              IN  /\ AlignedNow(before) /\ AlignedNow(after)
                  /\ 0 <= gap /\ gap <= ret.max_gap

\* one consecutive pair was accepted with a gap equal to max_gap > 0 and
\* another consecutive pair of aligned clip pairs was rejected for overlap
C5_Witness ==
    /\ ret.op = "find_eligible_boundaries"
    /\ ret.max_gap > 0
    /\ \E i, j \in 1..(Len(clip_pairs) - 1) :
          /\ EmittedFor(i) /\ GapAfter(i) = ret.max_gap
          /\ ~ EmittedFor(j) /\ GapAfter(j) < 0
          /\ AlignedNow(clip_pairs[j]) /\ AlignedNow(clip_pairs[j + 1])

\* C6: the boundaries come in the order of the clip pairs, none is
\* duplicated, a clip pair is the before side of at most one boundary and the
\* after side of at most one, and cut_frame = before.start + before.duration.
C6_BoundaryList ==
    ret.op = "find_eligible_boundaries" =>
        /\ \A k \in DOMAIN boundaries :
              /\ \E i \in 1..(Len(clip_pairs) - 1) :
                    /\ boundaries[k].clip_pair_before = clip_pairs[i]
                    /\ boundaries[k].clip_pair_after = clip_pairs[i + 1]
              /\ boundaries[k].cut_frame =
                    boundaries[k].clip_pair_before.start
                      + boundaries[k].clip_pair_before.duration
        /\ \A k, l \in DOMAIN boundaries :
              k < l =>
                  /\ PairIndex(boundaries[k].clip_pair_before)
                       < PairIndex(boundaries[l].clip_pair_before)
                  /\ boundaries[k] # boundaries[l]
                  /\ boundaries[k].clip_pair_before # boundaries[l].clip_pair_before
                  /\ boundaries[k].clip_pair_after # boundaries[l].clip_pair_after

\* two boundaries were emitted, the second one starting where the first ends
C6_Witness ==
    /\ ret.op = "find_eligible_boundaries"
    /\ Len(boundaries) >= 2
    /\ boundaries[1].clip_pair_after = boundaries[2].clip_pair_before
    /\ boundaries[2].cut_frame > boundaries[1].cut_frame

\* C7: find_clip_pairs emits exactly one pair for each video item whose key
\* is the key of some audio item and none for the others; the two items of a
\* pair have the same key and the pair's snapshot is read from the video item.
C7_ClipPairs ==
    ret.op = "find_clip_pairs" =>
        /\ \A v \in DOMAIN video_clips :
              Cardinality({i \in DOMAIN clip_pairs : clip_pairs[i].video_clip = v})
                = IF \E a \in DOMAIN audio_clips :
                        Key(audio_clips[a]) = Key(video_clips[v])
                  THEN 1 ELSE 0
        /\ \A i \in DOMAIN clip_pairs :
              LET pair  == clip_pairs[i]
                  video == video_clips[pair.video_clip]
                  audio == audio_clips[pair.audio_clip]
              IN  /\ Key(video) = Key(audio)
                  /\ pair.name = TextOf(video, "Name")
                  /\ pair.media_ref = TextOf(video, "MediaRef")
                  /\ <<pair.start, pair.duration, pair.in_point>> = Triple(video)

\* one video item was paired, with an audio item whose Duration differs from
\* its own, while another video item and another audio item stayed unmatched
\* although they differ from each other only in MediaRef
C7_Witness ==
    /\ ret.op = "find_clip_pairs"
    /\ Len(clip_pairs) = 1
    /\ clip_pairs[1].duration
         # Reads(audio_clips[clip_pairs[1].audio_clip], "Duration")
    /\ \E v \in DOMAIN video_clips, a \in DOMAIN audio_clips :
          /\ v # clip_pairs[1].video_clip
          /\ a # clip_pairs[1].audio_clip
          /\ TextOf(video_clips[v], "Name") = TextOf(audio_clips[a], "Name")
          /\ Reads(video_clips[v], "Start") = Reads(audio_clips[a], "Start")
          /\ TextOf(video_clips[v], "MediaRef") # TextOf(audio_clips[a], "MediaRef")

\* C8: when several audio items share a key, every pair emitted for that
\* key carries the last of them in audio input order.
C8_LastAudioWins ==
    ret.op = "find_clip_pairs" =>
        \A i \in DOMAIN clip_pairs :
            \A a \in DOMAIN audio_clips :
                Key(audio_clips[a]) = Key(video_clips[clip_pairs[i].video_clip])
                    => a <= clip_pairs[i].audio_clip

\* a pair carries the second of two different audio items with its key
C8_Witness ==
    /\ ret.op = "find_clip_pairs"
    /\ \E i \in DOMAIN clip_pairs :
          /\ clip_pairs[i].audio_clip = 2
          /\ Key(audio_clips[1]) = Key(audio_clips[2])
          /\ audio_clips[1] # audio_clips[2]

\* C9: the list returned by find_clip_pairs is ascending in Start, and pairs
\* with equal Start are in the order of their video items.
C9_SortedStable ==
    ret.op = "find_clip_pairs" =>
        \A i, j \in DOMAIN clip_pairs :
            i < j =>
                \/ clip_pairs[i].start < clip_pairs[j].start
                \/ /\ clip_pairs[i].start = clip_pairs[j].start
                   /\ clip_pairs[i].video_clip < clip_pairs[j].video_clip

\* the result holds two pairs with equal Start, and a pair whose video item
\* came later in the input than the video item of a pair behind it
C9_Witness ==
    /\ ret.op = "find_clip_pairs"
    /\ \E i, j \in DOMAIN clip_pairs :
          i < j /\ clip_pairs[i].start = clip_pairs[j].start
    /\ \E i, j \in DOMAIN clip_pairs :
          i < j /\ clip_pairs[i].video_clip > clip_pairs[j].video_clip

\* C10: is_aligned(pair) is true iff the (Start, Duration, In) read now from
\* the pair's video item equals the one read now from its audio item.
C10_IsAligned ==
    ret.op = "is_aligned" =>
        ret.value = ( Triple(video_clips[ret.clip_pair.video_clip])
                        = Triple(audio_clips[ret.clip_pair.audio_clip]) )

\* is_aligned returned false for a pair whose audio item was moved by a cut
\* after the pair was made
C10_Witness ==
    /\ ret.op = "is_aligned"
    /\ ~ ret.value
    /\ ret.clip_pair.start # Reads(audio_clips[ret.clip_pair.audio_clip], "Start")
    /\ ret.clip_pair.start = Reads(video_clips[ret.clip_pair.video_clip], "Start")

IsBatch == ret.op = "apply_cuts_to_timeline"

\* the positions of the list whose message reports a success, in list order
Succeeded ==
    SelectSeq([i \in 1..Len(ret.messages) |-> i], LAMBDA i : ret.messages[i].ok)

\* C11: a batch attempts the chosen cut on every boundary of its list, in
\* list order and whatever failed before: the two counts add up to the
\* length of the list, there is one message per boundary in processing
\* order, successful_boundaries is the sub-list of the boundaries whose cut
\* succeeded, an empty list gives (0, 0), a list whose cuts all fail gives
\* (0, n); the verdict a dry-run batch reports for a boundary is the verdict
\* of that boundary's own dry run.
C11_BatchAccounting ==
    IsBatch =>
        LET n == Len(ret.boundaries)
        IN  /\ ret.success_count + ret.fail_count = n
            /\ Len(ret.messages) = n
            /\ \A i \in 1..n : ret.messages[i].boundary_num = i
            /\ ret.success_count = Len(Succeeded)
            /\ ret.successful_boundaries =
                   [j \in 1..Len(Succeeded) |-> ret.boundaries[Succeeded[j]]]
            /\ n = 0 => ret.success_count = 0 /\ ret.fail_count = 0
            /\ Succeeded = <<>> => ret.success_count = 0 /\ ret.fail_count = n
            /\ ret.dry_run =>
                   \A i \in 1..n :
                       ret.messages[i].ok =
                           cut_function(ret.cut_type, audio_clips, ret.boundaries[i],
                                        ret.offset, TRUE).success

\* a live batch whose first cut failed and whose second cut succeeded
C11_Witness ==
    /\ IsBatch
    /\ ~ ret.dry_run
    /\ Len(ret.messages) >= 2
    /\ ~ ret.messages[1].ok
    /\ ret.messages[2].ok

\* the pairs and the boundaries are the ones the matcher and the detector
\* derive from the two tracks as they are now
Fresh ==
    /\ clip_pairs = find_clip_pairs(video_clips, audio_clips)
    /\ boundaries = find_eligible_boundaries(video_clips, audio_clips, clip_pairs,
                                             DefaultMaxGap)

\* C12: for a boundary list that find_eligible_boundaries derived from the
\* output of find_clip_pairs, either cut kind and a positive offset, a live
\* batch gives every boundary the verdict it gets when the same list is
\* processed in the opposite order, and the two counts are the same.
C12_OrderIndependent ==
    [][ (Fresh /\ IsBatch' /\ ~ ret'.dry_run /\ ret'.offset > 0) =>
          LET n == Len(ret'.boundaries)
              opposite == apply_cuts_to_timeline(audio_clips, Reverse(ret'.boundaries),
                                                 ret'.offset, ret'.cut_type, FALSE)
          IN  /\ \A i \in 1..n :
                     ret'.messages[i].ok = opposite.messages[n + 1 - i].ok
              /\ ret'.success_count = opposite.success_count
              /\ ret'.fail_count = opposite.fail_count ]_vars

IsPreCheck == ret.op = "validate_boundary_for_offset"

\* C13: whenever validate_boundary_for_offset accepts a boundary of the
\* list and a positive offset, the validation inside apply_j_cut and the
\* one inside apply_l_cut accept the same boundary and offset on the
\* timeline as it is at that moment, live cuts of earlier calls included.
C13_PreCheckConsistent ==
    (IsPreCheck /\ ret.offset > 0 /\ ret.value.ok) =>
        /\ validate_j_cut(audio_clips, ret.boundary, ret.offset).success
        /\ validate_l_cut(audio_clips, ret.boundary, ret.offset).success

\* C14: the J-cut is not idempotent.  A live J-cut that follows a successful
\* live J-cut of the same boundary with the same offset o, the first having
\* found Start=s, Duration=d, In=i, is validated against the shifted values
\* (it succeeds iff s-2o >= 0 and i-2o >= 0) and, when it succeeds, leaves
\* Start=s-2o, Duration=d+2o, In=i-2o; the first cut left no mark on the
\* boundary or on the pairs.
C14_NotIdempotent ==
    [][ ( /\ LiveSuccess("apply_j_cut")
          /\ ret'.op = "apply_j_cut"
          /\ ~ ret'.dry_run
          /\ ret'.boundary = ret.boundary
          /\ ret'.offset = ret.offset ) =>
          LET o == ret.offset
              s == ret.message.args[2]
              d == ret.message.args[4]
              i == ret.message.args[6]
              a == ret.boundary.clip_pair_after.audio_clip
          IN  /\ Triple(audio_clips[a]) = <<s - o, d + o, i - o>>
              /\ ret'.success <=> (s - 2 * o >= 0 /\ i - 2 * o >= 0)
              /\ ret'.success =>
                    Triple(audio_clips'[a]) = <<s - 2 * o, d + 2 * o, i - 2 * o>>
              /\ boundaries' = boundaries /\ clip_pairs' = clip_pairs
      ]_vars

\* a live J-cut has succeeded on a target that an earlier J-cut with the
\* same offset had already moved away from the pair's recorded values
C14_Witness ==
    /\ LiveSuccess("apply_j_cut")
    /\ LET a == ret.boundary.clip_pair_after.audio_clip
           after == ret.boundary.clip_pair_after
       IN  Triple(audio_clips[a]) = << after.start - 2 * ret.offset,
                                       after.duration + 2 * ret.offset,
                                       after.in_point - 2 * ret.offset >>

FrameFields == {"Start", "Duration", "In"}

\* the frame fields of a clip item whose text differs between two tracks
Rewritten(before, after, a) ==
    {p \in FrameFields : get_clip_property(after[a], p) # get_clip_property(before[a], p)}

\* C15: a J-cut or L-cut that fails, whatever the reason, returns failure
\* with a message and has changed no field of any clip item; a J-cut leaves
\* every audio item either with none or with all of Start, Duration and In
\* rewritten.
C15_FailureChangesNothing ==
    [][ /\ (ret'.op \in {"apply_j_cut", "apply_l_cut"} /\ ~ ret'.success) =>
              /\ audio_clips' = audio_clips
              /\ video_clips' = video_clips
              /\ ret'.message.text # ""
        /\ ret'.op = "apply_j_cut" =>
              \A a \in DOMAIN audio_clips :
                  Rewritten(audio_clips, audio_clips', a) \in {{}, FrameFields}
      ]_vars

\* a live J-cut with a positive offset has been rejected because of the In
\* it found, which the target still holds
C15_Witness ==
    /\ ret.op = "apply_j_cut"
    /\ ~ ret.dry_run
    /\ ~ ret.success
    /\ ret.offset > 0
    /\ LET a == ret.boundary.clip_pair_after.audio_clip
       IN  /\ Reads(audio_clips[a], "Start") >= ret.offset
           /\ Reads(audio_clips[a], "In") < ret.offset

ReadOnlyOps ==
    {"find_clip_pairs", "find_eligible_boundaries", "is_aligned",
     "validate_boundary_for_offset"}

\* every audio item but the one at position a is what it was
OnlyChanged(a) ==
    /\ DOMAIN audio_clips' = DOMAIN audio_clips
    /\ \A b \in DOMAIN audio_clips : b # a => audio_clips'[b] = audio_clips[b]

\* C18: no operation changes a video clip item; find_clip_pairs,
\* find_eligible_boundaries, is_aligned and validate_boundary_for_offset
\* change no clip item at all; a live J-cut changes at most the audio item
\* of the boundary's pair after the cut point, a live L-cut at most the
\* audio item of the pair before it.
C18_OnlyCutsWrite ==
    [][ /\ video_clips' = video_clips
        /\ ret'.op \in ReadOnlyOps => audio_clips' = audio_clips
        /\ ret'.op = "apply_j_cut" =>
              OnlyChanged(ret'.boundary.clip_pair_after.audio_clip)
        /\ ret'.op = "apply_l_cut" =>
              OnlyChanged(ret'.boundary.clip_pair_before.audio_clip)
      ]_vars

\* a live L-cut has lengthened the audio item before the cut point on a
\* track where the pair after the cut point has another audio item
C18_Witness ==
    /\ LiveSuccess("apply_l_cut")
    /\ ret.boundary.clip_pair_before.audio_clip # ret.boundary.clip_pair_after.audio_clip
    /\ Reads(audio_clips[ret.boundary.clip_pair_before.audio_clip], "Duration")
          = ret.message.args[3]

\* C20: after a successful live J-cut or L-cut the audio item the cut has
\* written reads Start >= 0, Duration >= 0 and In >= 0, whatever integers,
\* negative ones included, it held before.
C20_NonNegativeAfterCut ==
    /\ LiveSuccess("apply_j_cut") =>
          NonNegative(audio_clips[ret.boundary.clip_pair_after.audio_clip])
    /\ LiveSuccess("apply_l_cut") =>
          NonNegative(audio_clips[ret.boundary.clip_pair_before.audio_clip])

\* the integer texts of the timelines read here, with the integer each one
\* denotes, and the texts that denote no integer
IntegerTexts ==
    [text \in {"0", "1", "+1", " 1 ", "-1"} |->
        CASE text = "0" -> 0
          [] text \in {"1", "+1", " 1 "} -> 1
          [] text = "-1" -> 0 - 1]

OtherTexts == {"", "x", "A", "B"}

IsParse == ret.op = "parse_int_property"

\* C17: parse_int_property returns the supplied default for a property that
\* is absent, empty or holds text that denotes no integer, and the integer
\* for text that denotes one; find_clip_pairs, find_eligible_boundaries and
\* is_aligned can be carried out on every timeline, whatever its items hold
\* in Start, Duration and In.
C17_ParseTotal ==
    /\ IsParse =>
          LET present == ret.property_name \in DOMAIN ret.clip
              text == ret.clip[ret.property_name]
          IN  /\ ~ present => ret.value = ret.default
              /\ present =>
                    /\ text \in DOMAIN IntegerTexts \cup OtherTexts
                    /\ text \in OtherTexts => ret.value = ret.default
                    /\ text \in DOMAIN IntegerTexts => ret.value = IntegerTexts[text]
    /\ ENABLED FindClipPairs
    /\ ENABLED FindEligibleBoundaries(0)
    /\ \A i \in DOMAIN clip_pairs : ENABLED IsAligned(i)
    /\ ret.op = "is_aligned" => ret.value \in BOOLEAN

\* a read that found text denoting no integer has returned a default other
\* than 0
C17_Witness ==
    /\ IsParse
    /\ ret.property_name \in DOMAIN ret.clip
    /\ ret.clip[ret.property_name] = "x"
    /\ ret.default = 0 - 1
    /\ ret.value = 0 - 1

(***************************************************************************)
(* What a file of the project is, read off its tree.                       *)
(***************************************************************************)
IsTimeline(file) ==
    /\ file.dir = "SeqContainer"
    /\ file.suffix = ".xml"
    /\ file.xml # <<>>
    /\ file.xml[1].tag = "Sm2SequenceContainer"

\* the track vector, its first Element, the track or its Items is missing
Missing(file, track_vec) ==
    LET root == file.xml[1].children
    IN  \/ track_vec \notin DOMAIN root
        \/ "Element" \notin DOMAIN root[track_vec]
        \/ "Sm2TiTrack" \notin DOMAIN root[track_vec].Element
        \/ "Items" \notin DOMAIN root[track_vec].Element.Sm2TiTrack

Malformed(file) ==
    IsTimeline(file) /\ (Missing(file, "VideoTrackVec") \/ Missing(file, "AudioTrackVec"))

PairsOf(file) ==
    find_clip_pairs(get_timeline_info(file).video_clips,
                    get_timeline_info(file).audio_clips)

BoundariesOf(file) ==
    find_eligible_boundaries(get_timeline_info(file).video_clips,
                             get_timeline_info(file).audio_clips,
                             PairsOf(file), DefaultMaxGap)

\* the positions of the members that are not malformed timelines
Kept == SelectSeq([i \in DOMAIN members |-> i], LAMBDA i : ~ Malformed(members[i]))

IsRun == ret.op = "process_drp"

\* C16: a timeline whose video track, audio track or Items is missing gives
\* an empty clip list for that track, no pairs and no boundaries, and is
\* left as it was; a run treats every other file of the project, and counts
\* boundaries and applied cuts, exactly as the run on the project without
\* the malformed timelines does.
C16_MalformedTimeline ==
    [][ IsRun' =>
          LET rest == [j \in DOMAIN Kept |-> members[Kept[j]]]
              alone == process_drp(rest, ret'.cut_type, ret'.offset)
          IN  /\ \A i \in DOMAIN members :
                    Malformed(members[i]) =>
                      /\ Missing(members[i], "VideoTrackVec") =>
                            get_timeline_info(members[i]).video_clips = <<>>
                      /\ Missing(members[i], "AudioTrackVec") =>
                            get_timeline_info(members[i]).audio_clips = <<>>
                      /\ PairsOf(members[i]) = <<>>
                      /\ BoundariesOf(members[i]) = <<>>
                      /\ members'[i] = members[i]
                      /\ \A k \in DOMAIN saved' : saved'[k] # i
              /\ \A j \in DOMAIN Kept : members'[Kept[j]] = alone.tree[j]
              /\ saved' = [k \in DOMAIN alone.saved |-> Kept[alone.saved[k]]]
              /\ ret'.total_boundaries = alone.total_boundaries
              /\ ret'.total_applied = alone.total_applied
      ]_vars

\* a run has written a timeline that follows a malformed one in the project
C16_Witness ==
    /\ IsRun
    /\ \E i, j \in DOMAIN members :
          /\ i < j
          /\ Malformed(members[i])
          /\ \E k \in DOMAIN saved : saved[k] = j

\* the request passes the validation of cut_type and offset
Accepted(cut_type, offset) ==
    /\ cut_type \in {"J", "j", "L", "l"}
    /\ offset >= 1
    /\ offset <= 100

\* the cuts that succeed in a file when it is processed
SuccessesIn(file, cut_type, offset) ==
    IF IsTimeline(file)
    THEN apply_cuts_to_timeline(get_timeline_info(file).audio_clips, BoundariesOf(file),
                                offset, cut_type, FALSE).success_count
    ELSE 0

BoundariesIn(file) == IF IsTimeline(file) THEN Len(BoundariesOf(file)) ELSE 0

\* C19: in a run that gets to process timelines, a timeline is written iff
\* at least one cut succeeded in it; a file that is not written, and so
\* every timeline without boundaries or without a success and every file
\* that is no timeline, is left as it was; the run returns the repacked
\* archive iff the applied cuts of all timelines together are more than 0,
\* it reports that there are no eligible boundaries when the boundaries of
\* all timelines together are 0, and that the cuts could not be applied
\* when there are boundaries and no cut succeeded.  A request that is
\* rejected before any timeline is processed writes nothing.
C19_WrittenIffCut ==
    [][ IsRun' =>
          LET n == Len(members)
              cut_type == ret'.cut_type
              offset == ret'.offset
              written == {saved'[k] : k \in DOMAIN saved'}
              boundaries_upto_file[k \in 0..n] ==
                  IF k = 0 THEN 0
                  ELSE boundaries_upto_file[k - 1] + BoundariesIn(members[k])
              applied_upto_file[k \in 0..n] ==
                  IF k = 0 THEN 0
                  ELSE applied_upto_file[k - 1] + SuccessesIn(members[k], cut_type, offset)
              processed == /\ Accepted(cut_type, offset)
                           /\ \E i \in 1..n : IsTimeline(members[i])
          IN  /\ processed =>
                    /\ \A i \in 1..n :
                          i \in written <=>
                            (IsTimeline(members[i])
                               /\ SuccessesIn(members[i], cut_type, offset) > 0)
                    /\ \A i \in 1..n : i \notin written => members'[i] = members[i]
                    /\ ret'.status_code = 200 <=> applied_upto_file[n] > 0
                    /\ boundaries_upto_file[n] = 0 =>
                          ret'.detail = "No eligible boundaries found in project"
                    /\ (boundaries_upto_file[n] > 0 /\ applied_upto_file[n] = 0) =>
                          ret'.detail = "Could not apply cuts"
              /\ ~ processed =>
                    /\ members' = members
                    /\ saved' = <<>>
                    /\ ret'.status_code = 400
      ]_vars

\* a run has returned the archive with one timeline written and another
\* timeline, whose cuts all failed, left unwritten
C19_Witness ==
    /\ IsRun
    /\ ret.status_code = 200
    /\ ret.total_applied < ret.total_boundaries
    /\ \E i \in DOMAIN members :
          /\ IsTimeline(members[i])
          /\ BoundariesIn(members[i]) > 0
          /\ \A k \in DOMAIN saved : saved[k] # i

\* the audio item the cut of a batch is aimed at on a boundary
TargetOf(cut_type, boundary) ==
    IF cut_type \in {"J", "j"}
    THEN boundary.clip_pair_after.audio_clip
    ELSE boundary.clip_pair_before.audio_clip

\* C21: in a live batch of one cut kind with a positive offset over a
\* boundary list that find_eligible_boundaries derived from the output of
\* find_clip_pairs, no two boundaries of the list are aimed at the same
\* audio item, and no audio item ends up shifted by more than one offset.
C21_MutatedAtMostOnce ==
    [][ (Fresh /\ IsBatch' /\ ~ ret'.dry_run /\ ret'.offset > 0) =>
          /\ \A i, j \in DOMAIN ret'.boundaries :
                i # j => TargetOf(ret'.cut_type, ret'.boundaries[i])
                           # TargetOf(ret'.cut_type, ret'.boundaries[j])
          /\ \A a \in DOMAIN audio_clips :
                Reads(audio_clips'[a], "Duration")
                  <= Reads(audio_clips[a], "Duration") + ret'.offset
      ]_vars

\* C23: for a boundary list that find_eligible_boundaries derived from the
\* output of find_clip_pairs, either cut kind and a positive offset, the
\* live batch reports the success_count, the fail_count and the verdict
\* for each boundary that the dry-run batch reports on the same timeline
\* before it is modified.
C23_DryRunBatchAgrees ==
    [][ (Fresh /\ IsBatch' /\ ~ ret'.dry_run /\ ret'.offset > 0) =>
          LET dry == apply_cuts_to_timeline(audio_clips, ret'.boundaries,
                                            ret'.offset, ret'.cut_type, TRUE)
          IN  /\ ret'.success_count = dry.success_count
              /\ ret'.fail_count = dry.fail_count
              /\ \A i \in DOMAIN ret'.boundaries :
                    ret'.messages[i].ok = dry.messages[i].ok
      ]_vars

\* what the next pass over the timeline, as the batch leaves it, would match
\* and detect
PairsOfNextPass == find_clip_pairs(video_clips', audio_clips')

BoundariesOfNextPass ==
    find_eligible_boundaries(video_clips', audio_clips', PairsOfNextPass, DefaultMaxGap)

Range(list) == {list[i] : i \in DOMAIN list}

\* C22: a pass (find_clip_pairs, find_eligible_boundaries, live batch) that
\* follows a live batch of an earlier pass cuts no edit point again.  For
\* every boundary the batch has cut successfully: after a J-cut the pair
\* after the cut point is not matched again, after an L-cut the pair before
\* the cut point is not aligned any more, and the next pass emits no
\* boundary between the same two video clips.
C22_NoSecondCut ==
    [][ (Fresh /\ IsBatch' /\ ~ ret'.dry_run) =>
          \A b \in Range(ret'.successful_boundaries) :
              /\ ret'.cut_type \in {"J", "j"} =>
                    \A p \in Range(PairsOfNextPass) :
                        p.video_clip # b.clip_pair_after.video_clip
              /\ ret'.cut_type \notin {"J", "j"} =>
                    \A p \in Range(PairsOfNextPass) :
                        p.video_clip = b.clip_pair_before.video_clip =>
                          ~ is_aligned(video_clips', audio_clips', p)
              /\ \A c \in Range(BoundariesOfNextPass) :
                    ~ ( /\ c.clip_pair_before.video_clip = b.clip_pair_before.video_clip
                        /\ c.clip_pair_after.video_clip = b.clip_pair_after.video_clip )
      ]_vars

====
